---- MODULE Spec2Model ----
(***************************************************************************)
(* Model of Project/phishing_tester.py: the PhishingSimulator class over   *)
(* its three SQLite tables campaigns, employees and results.               *)
(*                                                                         *)
(* Every public method is one action.  Each method runs to completion      *)
(* (the program is sequential), so an action contains the whole method:    *)
(* its validation, its transaction, and the commit or rollback done by     *)
(* the "with sqlite3.connect(...) as conn" block.                          *)
(*                                                                         *)
(* uuid.uuid4() is modelled as "a value never stored before".  Campaign    *)
(* identifiers are drawn from the supply CampaignUuids; the identifiers    *)
(* and tokens of employees and results are natural numbers, a fresh one    *)
(* being larger than every number in the store.                            *)
(* What the environment decides is a parameter of the action: the reading  *)
(* of the clock (now), whether SQLite raises sqlite3.Error (failed, fault) *)
(* and how far the writing of files gets (written).                        *)
(* PRAGMA foreign_keys is never switched on by the program, so the         *)
(* FOREIGN KEY clauses of the schema are not enforced by SQLite.           *)
(***************************************************************************)
EXTENDS Integers, Sequences, FiniteSets, TLC

VARIABLES
    campaigns,  \* rows of table campaigns
    employees,  \* rows of table employees
    results,    \* rows of table results
    enrolled,   \* log of committed enrollments: which email each token was issued for
    last        \* the last call: its name and what it reported

vars == <<campaigns, employees, results, enrolled, last>>

(***************************************************************************)
(* Bounds of the model.                                                    *)
(***************************************************************************)
MaxCampaigns == 1   \* campaigns rows
MaxResults == 2     \* results rows
MaxStatsResults == 3   \* results rows where the statistics are read

(***************************************************************************)
(* Values.                                                                 *)
(***************************************************************************)
NULL == "NULL"      \* SQL NULL, Python None

\* datetime.now().isoformat(): two readings of the clock
FirstTime == "2026-01-01T00:00:01"
Times == {FirstTime, "2026-01-01T00:00:02"}

BogusId == "no-such-id"     \* a string that no uuid4() call returned
BogusToken == 0
CampaignNames == {"Q1"}

Max(S) == CHOOSE m \in S : \A n \in S : n <= m

(***************************************************************************)
(* _load_templates: the fixed catalog, keyed by template name.             *)
(***************************************************************************)
templates ==
    [t \in {"password_reset", "software_update", "ceo_request"} |->
        CASE t = "password_reset" ->
                [name |-> t, sender |-> "security@company.com", difficulty |-> "low"]
          [] t = "software_update" ->
                [name |-> t, sender |-> "it-support@company.com", difficulty |-> "medium"]
          [] t = "ceo_request" ->
                [name |-> t, sender |-> "ceo@company.com", difficulty |-> "high"]]

TemplateInputs == {"password_reset", "ceo_request", "no_such_template"}

(***************************************************************************)
(* uuid.uuid4(): the k-th fresh identifier drawn in the current call.      *)
(***************************************************************************)
CampaignUuids == <<"camp-1", "camp-2", "camp-3", "camp-4">>

CampaignUuid4 == CampaignUuids[Cardinality(campaigns) + 1]

UsedUuids ==
    {0} \cup {e.id : e \in employees}
        \cup {r.id : r \in results} \cup {r.employee_id : r \in results}
        \cup {r.token : r \in results}

Uuid4(k) == Max(UsedUuids) + k

(***************************************************************************)
(* _init_database: the tables are created empty.                           *)
(***************************************************************************)
Init ==
    /\ campaigns = {}
    /\ employees = {}
    /\ results = {}
    /\ enrolled = {}
    /\ last = [op |-> "init", outcome |-> "ok"]

(***************************************************************************)
(* "with sqlite3.connect(...) as conn": commit when the block ends         *)
(* normally, rollback when it is left by an exception.                     *)
(***************************************************************************)
\* Variant: every statement is committed as it is executed.
TransactionAutocommit(before, after, failed) == after

Transaction(before, after, failed) == IF failed THEN before ELSE after

(***************************************************************************)
(* create_campaign                                                         *)
(***************************************************************************)
\* Variant: the name and the template are bound to each other's column.
InsertCampaignSwapped(rows, campaign_id, name, template, created) ==
    rows \cup {[id |-> campaign_id, name |-> template, template |-> name,
                created |-> created, status |-> "active"]}

InsertCampaign(rows, campaign_id, name, template, created) ==
    rows \cup {[id |-> campaign_id, name |-> name, template |-> template,
                created |-> created, status |-> "active"]}

\* Variant: the template name is not looked up in the catalog.
CreateCampaignAnyTemplate(name, template, now, failed) ==
    LET campaign_id == CampaignUuid4
        after == InsertCampaign(campaigns, campaign_id, name, template, now)
    IN /\ campaigns' = Transaction(campaigns, after, failed)
       /\ last' = [op |-> "create_campaign",
                   outcome |-> IF failed THEN "storage_error" ELSE "ok"]
       /\ UNCHANGED <<employees, results, enrolled>>

CreateCampaign(name, template, now, failed) ==
    IF template \notin DOMAIN templates
    THEN /\ last' = [op |-> "create_campaign", outcome |-> "unknown_template"]
         /\ UNCHANGED <<campaigns, employees, results, enrolled>>
    ELSE LET campaign_id == CampaignUuid4
             after == InsertCampaign(campaigns, campaign_id, name, template, now)
         IN /\ campaigns' = Transaction(campaigns, after, failed)
            /\ last' = [op |-> "create_campaign",
                        outcome |-> IF failed THEN "storage_error" ELSE "ok"]
            /\ UNCHANGED <<employees, results, enrolled>>

(***************************************************************************)
(* add_employees: reading and validating the CSV file.                     *)
(* A row of csv.DictReader is a function from column names to values.      *)
(***************************************************************************)
Required == {"email", "name", "department"}

AliceRow == [email |-> "alice@x.com", name |-> "Alice", department |-> "Eng"]
AliciaRow == [email |-> "alice@x.com", name |-> "Alicia", department |-> "Sales"]
BobRow == [email |-> "bob@x.com", name |-> "Bob", department |-> "Eng"]
NoEmailRow == [email |-> NULL, name |-> "Carol", department |-> "Sales"]
ShortRow == [email |-> "bob@x.com", name |-> "Bob"]   \* no department column

\* The CSV files the model enrolls from.
Files ==
    {[exists |-> FALSE, rows |-> <<>>]}
        \cup {[exists |-> TRUE, rows |-> rs] :
                rs \in {<<>>, <<AliceRow>>, <<AliciaRow>>, <<BobRow>>, <<NoEmailRow>>,
                        <<AliceRow, AliciaRow>>, <<AliceRow, BobRow>>,
                        <<AliceRow, ShortRow>>}}

\* Variant: a file without data rows is accepted.
ReadCsvAllowEmpty(file) ==
    IF ~file.exists
    THEN [outcome |-> "file_not_found", employees |-> <<>>]
    ELSE IF \E i \in 1..Len(file.rows) : ~(Required \subseteq DOMAIN file.rows[i])
    THEN [outcome |-> "csv_error", message |-> "missing_fields", employees |-> <<>>]
    ELSE [outcome |-> "ok", employees |-> file.rows]

ReadCsv(file) ==
    IF ~file.exists
    THEN [outcome |-> "file_not_found", employees |-> <<>>]
    ELSE IF \E i \in 1..Len(file.rows) : ~(Required \subseteq DOMAIN file.rows[i])
    THEN [outcome |-> "csv_error", message |-> "missing_fields", employees |-> <<>>]
    ELSE IF file.rows = <<>>
    THEN [outcome |-> "csv_error", message |-> "empty", employees |-> <<>>]
    ELSE [outcome |-> "ok", employees |-> file.rows]

(***************************************************************************)
(* add_employees: the two INSERT statements of the loop body.              *)
(***************************************************************************)
\* INSERT OR IGNORE INTO employees: the row is skipped when it violates
\* PRIMARY KEY (id), UNIQUE (email) or NOT NULL (email).
\* Variant: ON CONFLICT (email) DO UPDATE, the stored row takes the new name
\* and department.
UpsertEmployee(rows, emp_id, emp, campaign_id) ==
    IF emp.email = NULL \/ \E e \in rows : e.id = emp_id
    THEN rows
    ELSE IF \E e \in rows : e.email = emp.email
    THEN {IF e.email = emp.email
          THEN [e EXCEPT !.name = emp.name, !.department = emp.department]
          ELSE e : e \in rows}
    ELSE rows \cup {[id |-> emp_id, email |-> emp.email, name |-> emp.name,
                     department |-> emp.department, campaign_id |-> campaign_id]}

\* Variant: INSERT OR REPLACE, the conflicting row gives way to the new one.
InsertOrReplaceEmployee(rows, emp_id, emp, campaign_id) ==
    IF emp.email = NULL
    THEN rows
    ELSE {e \in rows : e.email # emp.email /\ e.id # emp_id}
            \cup {[id |-> emp_id, email |-> emp.email, name |-> emp.name,
                   department |-> emp.department, campaign_id |-> campaign_id]}

InsertOrIgnoreEmployee(rows, emp_id, emp, campaign_id) ==
    IF \/ emp.email = NULL
       \/ \E e \in rows : e.email = emp.email \/ e.id = emp_id
    THEN rows
    ELSE rows \cup {[id |-> emp_id, email |-> emp.email, name |-> emp.name,
                     department |-> emp.department, campaign_id |-> campaign_id]}

\* INSERT INTO results (id, employee_id, campaign_id, token): the other
\* columns take the defaults of the schema.
\* Variant: the values of employee_id and token change places.
InsertResultSwapped(rows, result_id, emp_id, campaign_id, token) ==
    rows \cup {[id |-> result_id, employee_id |-> token, campaign_id |-> campaign_id,
                email_sent |-> 0, link_clicked |-> 0, phishing_reported |-> 0,
                clicked_at |-> NULL, reported_at |-> NULL, token |-> emp_id]}

InsertResult(rows, result_id, emp_id, campaign_id, token) ==
    rows \cup {[id |-> result_id, employee_id |-> emp_id, campaign_id |-> campaign_id,
                email_sent |-> 0, link_clicked |-> 0, phishing_reported |-> 0,
                clicked_at |-> NULL, reported_at |-> NULL, token |-> token]}

\* The database after the first n statements of the loop over emps; the
\* i-th iteration draws emp_id, token and result_id, in that order.
RECURSIVE ExecStatements(_, _, _, _, _)
ExecStatements(db, campaign_id, emps, base, n) ==
    IF n = 0 THEN db
    ELSE LET prev == ExecStatements(db, campaign_id, emps, base, n - 1)
             i == (n + 1) \div 2
             emp_id == base + 3 * (i - 1) + 1
             token == base + 3 * (i - 1) + 2
             result_id == base + 3 * (i - 1) + 3
         IN IF n % 2 = 1
            THEN [prev EXCEPT !.employees =
                      InsertOrIgnoreEmployee(@, emp_id, emps[i], campaign_id)]
            ELSE [prev EXCEPT !.results =
                      InsertResult(@, result_id, emp_id, campaign_id, token),
                               !.enrolled = @ \cup {[email |-> emps[i].email,
                                                     campaign_id |-> campaign_id,
                                                     token |-> token]}]

\* fault = 0: no sqlite3.Error; fault = k > 0: the k-th statement raises it.
\* last.statements counts the INSERT statements executed in the transaction.
AddEmployees(campaign_id, file, fault) ==
    LET read == ReadCsv(file) IN
    IF read.outcome # "ok"
    THEN /\ last' = [op |-> "add_employees", outcome |-> read.outcome,
                     statements |-> 0]
         /\ UNCHANGED <<campaigns, employees, results, enrolled>>
    ELSE LET count == IF fault = 0 THEN 2 * Len(read.employees) ELSE fault - 1
             before == [employees |-> employees, results |-> results,
                        enrolled |-> enrolled]
             after == ExecStatements(before, campaign_id, read.employees,
                                     Uuid4(0), count)
             db == Transaction(before, after, fault # 0)
         IN /\ last' = [op |-> "add_employees",
                        outcome |-> IF fault # 0 THEN "storage_error" ELSE "ok",
                        statements |-> count]
            /\ employees' = db.employees
            /\ results' = db.results
            /\ enrolled' = db.enrolled
            /\ UNCHANGED campaigns

(***************************************************************************)
(* generate_emails                                                         *)
(***************************************************************************)
\* SELECT e.email, e.name, r.token FROM employees e JOIN results r
\* ON e.id = r.employee_id WHERE e.campaign_id = ?
SelectRecipients(campaign_id) ==
    {[email |-> e.email, name |-> e.name, token |-> r.token] :
        <<e, r>> \in {p \in employees \X results :
                        p[1].id = p[2].employee_id /\ p[1].campaign_id = campaign_id}}

\* UPDATE results SET email_sent = 1 WHERE token = ?, once for every token
\* of the set.
UpdateEmailSent(rows, tokens) ==
    {IF r.token \in tokens THEN [r EXCEPT !.email_sent = 1] ELSE r : r \in rows}

\* Variant: the campaign is not looked up before the recipients are read.
GenerateEmailsAnyCampaign(campaign_id, written, marked) ==
    /\ results' = UpdateEmailSent(results, {m.token : m \in marked})
    /\ last' = [op |-> "generate_emails",
                outcome |-> IF written = SelectRecipients(campaign_id)
                            THEN "ok" ELSE "io_error",
                written |-> Cardinality(written)]
    /\ UNCHANGED <<campaigns, employees, enrolled>>

\* written: the recipients whose file was written before the loop ended (all
\* of them unless open() or write() raised); marked: those of them whose
\* UPDATE did not raise the sqlite3.Error that the loop swallows.
\* last.written counts the files written by the call.
GenerateEmails(campaign_id, written, marked) ==
    IF ~\E c \in campaigns : c.id = campaign_id
    THEN /\ last' = [op |-> "generate_emails", outcome |-> "campaign_not_found",
                     written |-> 0]
         /\ UNCHANGED <<campaigns, employees, results, enrolled>>
    ELSE LET campaign == CHOOSE c \in campaigns : c.id = campaign_id IN
         IF campaign.template \notin DOMAIN templates
         THEN /\ last' = [op |-> "generate_emails", outcome |-> "template_not_found",
                          written |-> 0]
              /\ UNCHANGED <<campaigns, employees, results, enrolled>>
         ELSE /\ results' = UpdateEmailSent(results, {m.token : m \in marked})
              /\ last' = [op |-> "generate_emails",
                          outcome |-> IF written = SelectRecipients(campaign_id)
                                      THEN "ok" ELSE "io_error",
                          written |-> Cardinality(written)]
              /\ UNCHANGED <<campaigns, employees, enrolled>>

(***************************************************************************)
(* simulate_click                                                          *)
(***************************************************************************)
\* UPDATE results SET link_clicked = 1, clicked_at = ? WHERE token = ?
\* Variant: the UPDATE has no WHERE clause of its own once a row matches.
UpdateClickedAll(rows, token, now) ==
    IF \E r \in rows : r.token = token
    THEN {[r EXCEPT !.link_clicked = 1, !.clicked_at = now] : r \in rows}
    ELSE rows

\* Variant: the UPDATE sets the flag and leaves clicked_at alone.
UpdateClickedNoTime(rows, token, now) ==
    {IF r.token = token THEN [r EXCEPT !.link_clicked = 1] ELSE r : r \in rows}

UpdateClicked(rows, token, now) ==
    {IF r.token = token THEN [r EXCEPT !.link_clicked = 1, !.clicked_at = now] ELSE r :
        r \in rows}

SimulateClick(token, now, failed) ==
    LET rowcount == Cardinality({r \in results : r.token = token}) IN
    /\ results' = Transaction(results, UpdateClicked(results, token, now), failed)
    /\ last' = [op |-> "simulate_click",
                outcome |-> IF failed THEN "db_error"
                            ELSE IF rowcount = 0 THEN "token_not_found"
                            ELSE "click_registered"]
    /\ UNCHANGED <<campaigns, employees, enrolled>>

(***************************************************************************)
(* report_phishing                                                         *)
(***************************************************************************)
\* UPDATE results SET phishing_reported = 1, reported_at = ? WHERE employee_id
\* IN (SELECT id FROM employees WHERE email = ? AND campaign_id = ?)
ReportedRows(email, campaign_id) ==
    {r \in results :
        r.employee_id \in {e.id : e \in {x \in employees :
                                x.email = email /\ x.campaign_id = campaign_id}}}

\* Variant: the matched rows are written anew, the other flags at their
\* defaults.
UpdateReportedWholeRow(rows, matched, now) ==
    {IF r \in matched
     THEN [r EXCEPT !.phishing_reported = 1, !.reported_at = now,
                    !.email_sent = 0, !.link_clicked = 0, !.clicked_at = NULL]
     ELSE r : r \in rows}

UpdateReported(rows, matched, now) ==
    {IF r \in matched THEN [r EXCEPT !.phishing_reported = 1, !.reported_at = now] ELSE r :
        r \in rows}

ReportPhishing(email, campaign_id, now, failed) ==
    LET matched == ReportedRows(email, campaign_id)
        rowcount == Cardinality(matched)
    IN /\ results' = Transaction(results, UpdateReported(results, matched, now), failed)
       /\ last' = [op |-> "report_phishing",
                   outcome |-> IF failed THEN "db_error"
                               ELSE IF rowcount = 0 THEN "employee_not_found"
                               ELSE "report_registered"]
       /\ UNCHANGED <<campaigns, employees, enrolled>>

(***************************************************************************)
(* get_stats                                                               *)
(***************************************************************************)
\* SUM(column) over a set of rows; SQL yields NULL for no rows.  The value
\* is <<>> for NULL and <<n>> for the number n.
RECURSIVE SumRows(_, _)
SumRows(rows, column) ==
    IF rows = {} THEN 0
    ELSE LET r == CHOOSE x \in rows : TRUE
         IN r[column] + SumRows(rows \ {r}, column)

SqlSum(rows, column) == IF rows = {} THEN <<>> ELSE <<SumRows(rows, column)>>

\* Python's "value or 0"
OrZero(value) == IF value = <<>> THEN 0 ELSE value[1]

\* Variant: the third decimal is cut off.
RateTruncated(part, total) ==
    IF total > 0 THEN (part * 10000) \div total ELSE 0

\* round(part / total * 100, 2) if total > 0 else 0, in hundredths of a
\* percent; round() breaks ties to the even neighbour.  The floating-point
\* computation gives this value for every total below 160.
Rate(part, total) ==
    IF total > 0
    THEN LET q == (part * 10000) \div total
             rem == (part * 10000) % total
         IN IF 2 * rem > total THEN q + 1
            ELSE IF 2 * rem < total THEN q
            ELSE IF q % 2 = 0 THEN q ELSE q + 1
    ELSE 0

\* SELECT COUNT(*), SUM(email_sent), SUM(link_clicked), SUM(phishing_reported)
\* FROM results WHERE campaign_id = ?
\* Variant: the totals are taken over the join with employees, as the
\* department query does.
SelectTotalsJoined(campaign_id) ==
    LET rows == {r \in results :
                    \E e \in employees :
                        e.id = r.employee_id /\ e.campaign_id = campaign_id}
    IN [total |-> Cardinality(rows),
        sent |-> SqlSum(rows, "email_sent"),
        clicked |-> SqlSum(rows, "link_clicked"),
        reported |-> SqlSum(rows, "phishing_reported")]

SelectTotals(campaign_id) ==
    LET rows == {r \in results : r.campaign_id = campaign_id}
    IN [total |-> Cardinality(rows),
        sent |-> SqlSum(rows, "email_sent"),
        clicked |-> SqlSum(rows, "link_clicked"),
        reported |-> SqlSum(rows, "phishing_reported")]

\* Variant: the aggregates are taken over every joined row, not over the
\* rows of the department.
SelectDepartmentsUngrouped(campaign_id) ==
    LET joined == {p \in employees \X results :
                      p[1].id = p[2].employee_id /\ p[1].campaign_id = campaign_id}
        all == {p[2] : p \in joined}
    IN {[department |-> d,
         total |-> Cardinality(all),
         clicked |-> OrZero(SqlSum(all, "link_clicked")),
         reported |-> OrZero(SqlSum(all, "phishing_reported"))] :
            d \in {p[1].department : p \in joined}}

\* SELECT e.department, COUNT(*), SUM(r.link_clicked), SUM(r.phishing_reported)
\* FROM employees e JOIN results r ON e.id = r.employee_id
\* WHERE e.campaign_id = ? GROUP BY e.department
SelectDepartments(campaign_id) ==
    LET joined == {p \in employees \X results :
                      p[1].id = p[2].employee_id /\ p[1].campaign_id = campaign_id}
        group(d) == {p[2] : p \in {x \in joined : x[1].department = d}}
    IN {[department |-> d,
         total |-> Cardinality(group(d)),
         clicked |-> OrZero(SqlSum(group(d), "link_clicked")),
         reported |-> OrZero(SqlSum(group(d), "phishing_reported"))] :
            d \in {p[1].department : p \in joined}}

Stats(campaign_id) ==
    LET row == SelectTotals(campaign_id)
        total == row.total
        sent == OrZero(row.sent)
        clicked == OrZero(row.clicked)
        reported == OrZero(row.reported)
    IN [total_employees |-> total,
        emails_sent |-> sent,
        links_clicked |-> clicked,
        phishing_reported |-> reported,
        click_rate |-> Rate(clicked, total),
        report_rate |-> Rate(reported, total),
        department_stats |-> SelectDepartments(campaign_id)]

\* The dictionary get_stats returns is Stats(campaign_id).
GetStats(campaign_id, failed) ==
    /\ last' = [op |-> "get_stats",
                outcome |-> IF failed THEN "storage_error" ELSE "ok"]
    /\ UNCHANGED <<campaigns, employees, results, enrolled>>

(***************************************************************************)
(* export_report                                                           *)
(***************************************************************************)
\* A second id of no campaign, with the first 8 characters of BogusId.
BogusId2 == "no-such-campaign"

\* campaign_id[:8] for the ids of the model; an id of up to 8 characters is
\* its own slice.
Prefix8(campaign_id) ==
    IF campaign_id \in {BogusId, BogusId2} THEN "no-such-" ELSE campaign_id

Formats == {"csv", "json", "xml"}

\* Variant: the file is named after the whole id.
FilenameWholeId(campaign_id, format) == <<"report_", campaign_id, ".", format>>

\* f"report_{campaign_id[:8]}.{format}"
Filename(campaign_id, format) == <<"report_", Prefix8(campaign_id), ".", format>>

\* failed: get_stats raises the storage error.  last.files holds the file
\* the call opened and wrote: its name, its encoding and the statistics in it.
ExportReport(campaign_id, format, failed) ==
    /\ last' = IF failed
               THEN [op |-> "export_report", outcome |-> "storage_error",
                     files |-> {}]
               ELSE IF format \in {"csv", "json"}
               THEN [op |-> "export_report", outcome |-> "ok",
                     files |-> {[name |-> Filename(campaign_id, format),
                                 encoding |-> format,
                                 stats |-> Stats(campaign_id)]}]
               ELSE [op |-> "export_report", outcome |-> "unsupported_format",
                     files |-> {}]
    /\ UNCHANGED <<campaigns, employees, results, enrolled>>

(***************************************************************************)
(* The command line: the arguments the operator may pass.                  *)
(***************************************************************************)
CampaignInputs == {c.id : c \in campaigns} \cup {BogusId}
TokenInputs == {r.token : r \in results} \cup {BogusToken}
EmailInputs == {"alice@x.com", "bob@x.com"}
SingleRowFiles == {f \in Files : f.exists /\ f.rows \in {<<AliceRow>>, <<BobRow>>}}

New(templateNames, times) ==
    \E name \in CampaignNames, template \in templateNames :
        \E now \in times, failed \in BOOLEAN :
            /\ template \in DOMAIN templates => Cardinality(campaigns) < MaxCampaigns
            /\ CreateCampaign(name, template, now, failed)

Add(files) ==
    \E campaign_id \in CampaignInputs, file \in files :
        \E fault \in 0..(2 * Len(file.rows)) :
            /\ Cardinality(results) + Len(ReadCsv(file).employees) <= MaxResults
            /\ AddEmployees(campaign_id, file, fault)

Generate ==
    \E campaign_id \in CampaignInputs :
        \E written \in SUBSET SelectRecipients(campaign_id) :
            \E marked \in SUBSET written :
                GenerateEmails(campaign_id, written, marked)

Click(times) ==
    \E token \in TokenInputs, now \in times, failed \in BOOLEAN :
        SimulateClick(token, now, failed)

Report ==
    \E email \in EmailInputs, campaign_id \in CampaignInputs :
        \E now \in {FirstTime}, failed \in BOOLEAN :
            ReportPhishing(email, campaign_id, now, failed)

StatsCmd ==
    \E campaign_id \in CampaignInputs, failed \in BOOLEAN :
        GetStats(campaign_id, failed)

\* Every operation that writes to the store, and get_stats, enrolling from
\* one-row files, the clock standing still.
Next ==
    \/ New({"password_reset", "no_such_template"}, {FirstTime})
    \/ Add(SingleRowFiles)
    \/ Generate
    \/ Click({FirstTime})
    \/ Report
    \/ StatsCmd

Spec == Init /\ [][Next]_vars

\* Creating campaigns and enrolling, from every file of Files.
NextEnroll ==
    \/ New(TemplateInputs, Times)
    \/ Add(Files)

SpecEnroll == Init /\ [][NextEnroll]_vars

\* Creating campaigns, enrolling from one-row files and clicking, the clock
\* advancing.
NextClick ==
    \/ New({"password_reset"}, {FirstTime})
    \/ Add(SingleRowFiles)
    \/ Click(Times)

SpecClick == Init /\ [][NextClick]_vars

\* Enrolling under a stored campaign, without a storage error, from the
\* one-row files, the second of which gives alice@x.com another department,
\* up to MaxStatsResults rows.
StatsFiles ==
    {f \in Files : f.exists /\ f.rows \in {<<AliceRow>>, <<AliciaRow>>, <<BobRow>>}}

AddForStats ==
    \E campaign_id \in {c.id : c \in campaigns}, file \in StatsFiles :
        /\ Cardinality(results) + Len(ReadCsv(file).employees) <= MaxStatsResults
        /\ AddEmployees(campaign_id, file, 0)

\* Creating campaigns, enrolling, clicking, reporting and reading the
\* statistics, the clock standing still.
NextStats ==
    \/ New({"password_reset"}, {FirstTime})
    \/ AddForStats
    \/ Click({FirstTime})
    \/ Report
    \/ StatsCmd

SpecStats == Init /\ [][NextStats]_vars

Export ==
    \E campaign_id \in CampaignInputs \cup {BogusId2}, format \in Formats :
        \E failed \in BOOLEAN : ExportReport(campaign_id, format, failed)

\* Creating campaigns, enrolling from one-row files and exporting.
NextExport ==
    \/ New({"password_reset"}, {FirstTime})
    \/ Add(SingleRowFiles)
    \/ Export

SpecExport == Init /\ [][NextExport]_vars

(***************************************************************************)
(* Properties of add_employees.                                            *)
(***************************************************************************)
CampaignIds == {c.id : c \in campaigns}
EmailsOf(rows) == {rows[i].email : i \in 1..Len(rows)} \ {NULL}

\* C1: a successful add_employees(c, file) of N rows, duplicates included,
\* keeps every old row, adds exactly N results rows, each under c, with a
\* token no older row has, the three flags 0 and both timestamps NULL, the N
\* tokens differing from each other, and adds exactly one employees row for
\* each distinct email of the file that no employees row had before.
C1_EnrollAddsRows ==
    [][\A c \in CampaignInputs, f \in Files :
          (/\ last'.op = "add_employees"
           /\ last'.outcome = "ok"
           /\ AddEmployees(c, f, 0))
          => LET n == Len(f.rows)
                 newResults == results' \ results
                 newEmployees == employees' \ employees
                 newEmails == EmailsOf(f.rows) \ {e.email : e \in employees}
             IN /\ results \subseteq results'
                /\ employees \subseteq employees'
                /\ Cardinality(newResults) = n
                /\ Cardinality({r.token : r \in newResults}) = n
                /\ \A r \in newResults :
                      /\ r.campaign_id = c
                      /\ r.token \notin {x.token : x \in results}
                      /\ r.email_sent = 0
                      /\ r.link_clicked = 0
                      /\ r.phishing_reported = 0
                      /\ r.clicked_at = NULL
                      /\ r.reported_at = NULL
                /\ {e.email : e \in newEmployees} = newEmails
                /\ Cardinality(newEmployees) = Cardinality(newEmails)]_vars

\* The same email was enrolled twice under the same campaign: one employees
\* row carries it, two results rows were made for it.
C1_Witness ==
    /\ last.op = "add_employees"
    /\ last.outcome = "ok"
    /\ \E a \in enrolled, b \in enrolled :
          /\ a.token # b.token
          /\ a.email = b.email
          /\ a.email # NULL
          /\ a.campaign_id = b.campaign_id
          /\ Cardinality({e \in employees : e.email = a.email}) = 1
          /\ Cardinality({r \in results : r.token \in {a.token, b.token}}) = 2

\* C2: every results row names, by employee_id, an employees row of the
\* store, and that row's campaign_id is the results row's campaign_id.
C2_ResultReferencesEmployee ==
    \A r \in results :
        \E e \in employees : e.id = r.employee_id /\ e.campaign_id = r.campaign_id

\* C3: after every step, each employees row is referenced through
\* employee_id by exactly one results row; for a row the step inserted, the
\* step is an add_employees call and the referencing row is new with it; for
\* an older row the referencing row is the one it had.
C3_OneResultPerEmployee ==
    [][\A e \in employees' :
          LET refs == {r \in results' : r.employee_id = e.id}
          IN /\ Cardinality(refs) = 1
             /\ e \notin employees =>
                   /\ last'.op = "add_employees"
                   /\ \A r \in refs : r.id \notin {x.id : x \in results}
             /\ e \in employees =>
                   {r.id : r \in refs} =
                      {r.id : r \in {x \in results : x.employee_id = e.id}}]_vars

\* An employees row has its one results row, its email has been enrolled a
\* second time, and a later operation has changed the referencing row.
C3_Witness ==
    \E e \in employees :
        /\ Cardinality({r \in results : r.employee_id = e.id}) = 1
        /\ Cardinality({x \in enrolled : x.email = e.email}) = 2
        /\ \E r \in results : r.employee_id = e.id /\ r.phishing_reported = 1

(***************************************************************************)
(* Properties of report_phishing, generate_emails, get_stats and           *)
(* simulate_click.                                                         *)
(***************************************************************************)
\* The tokens add_employees issued for this email under this campaign.
TokensFor(email, campaign_id) ==
    {x.token : x \in {y \in enrolled : y.email = email /\ y.campaign_id = campaign_id}}

\* C4: report_phishing(email, c) that meets no storage error sets
\* phishing_reported and a non-NULL reported_at on every results row made for
\* that email under c and leaves every other results row as it was; when the
\* email was never enrolled under c no row changes and "not found" is
\* reported.
C4_ReportMarksEnrolled ==
    [][\A email \in EmailInputs, c \in CampaignInputs :
          (/\ last'.op = "report_phishing"
           /\ last'.outcome # "db_error"
           /\ ReportPhishing(email, c, FirstTime, FALSE))
          => LET tokens == TokensFor(email, c)
             IN /\ \A r \in results :
                      r.token \in tokens =>
                         \E x \in results' :
                            /\ x.id = r.id
                            /\ x.phishing_reported = 1
                            /\ x.reported_at # NULL
                /\ \A r \in results : r.token \notin tokens => r \in results'
                /\ tokens = {} =>
                      results' = results /\ last'.outcome = "employee_not_found"]_vars

\* C5: generate_emails(c) on an existing campaign that writes every file and
\* meets no storage error leaves every results row of c with email_sent = 1,
\* so that get_stats(c) has emails_sent = total_employees; it changes no
\* results row of another campaign and no column but email_sent.
C5_RenderMarksAll ==
    [][\A c \in CampaignIds :
          (/\ last'.op = "generate_emails"
           /\ last'.outcome = "ok"
           /\ GenerateEmails(c, SelectRecipients(c), SelectRecipients(c)))
          => /\ \A r \in results' : r.campaign_id = c => r.email_sent = 1
             /\ Stats(c)'.emails_sent = Stats(c)'.total_employees
             /\ \A r \in results :
                   \E x \in results' :
                      /\ x = [r EXCEPT !.email_sent = x.email_sent]
                      /\ r.campaign_id # c => x = r]_vars

\* C6: a get_stats call changes no row, and the dictionary get_stats(c)
\* returns has total_employees equal to the number of results rows whose
\* campaign_id is c, and emails_sent, links_clicked and phishing_reported
\* equal to the number of those rows with the flag set.
C6_StatsCountResults ==
    [][last'.op = "get_stats"
       => /\ UNCHANGED <<campaigns, employees, results>>
          /\ \A c \in CampaignInputs :
             GetStats(c, FALSE)
             => LET rows == {r \in results : r.campaign_id = c}
                    s == Stats(c)
                IN /\ s.total_employees = Cardinality(rows)
                   /\ s.emails_sent =
                         Cardinality({r \in rows : r.email_sent = 1})
                   /\ s.links_clicked =
                         Cardinality({r \in rows : r.link_clicked = 1})
                   /\ s.phishing_reported =
                         Cardinality({r \in rows : r.phishing_reported = 1})]_vars

\* Statistics were asked for while results rows exist under two campaign
\* identifiers and a report has been registered.
C6_Witness ==
    /\ last.op = "get_stats"
    /\ last.outcome = "ok"
    /\ Cardinality({r.campaign_id : r \in results}) = 2
    /\ \E r \in results : r.phishing_reported = 1

\* C7: simulate_click(token) that meets no storage error changes no
\* campaigns or employees row; when no results row has the token, results is
\* unchanged and "token not found" is reported; otherwise the click is
\* registered and results changes in exactly the one row with that token,
\* which gets link_clicked = 1 and clicked_at = now, whether or not it was
\* clicked before.
C7_ClickMarksOneRow ==
    [][\A token \in TokenInputs, now \in Times :
          (/\ last'.op = "simulate_click"
           /\ last'.outcome # "db_error"
           /\ SimulateClick(token, now, FALSE))
          => /\ UNCHANGED <<campaigns, employees>>
             /\ IF ~\E r \in results : r.token = token
                THEN results' = results /\ last'.outcome = "token_not_found"
                ELSE /\ last'.outcome = "click_registered"
                     /\ Cardinality({r \in results : r.token = token}) = 1
                     /\ \E r \in results :
                           /\ r.token = token
                           /\ results' = (results \ {r}) \cup
                                 {[r EXCEPT !.link_clicked = 1, !.clicked_at = now]}]_vars

\* A click was registered at the later time on one of two results rows, the
\* other row being untouched.
C7_Witness ==
    /\ last.op = "simulate_click"
    /\ last.outcome = "click_registered"
    /\ \E r \in results, x \in results :
          /\ r.link_clicked = 1
          /\ r.clicked_at # FirstTime
          /\ x.link_clicked = 0
          /\ x.clicked_at = NULL

C9_RollbackOnStorageError ==
    [][(last'.op = "add_employees" /\ last'.outcome = "storage_error")
          => UNCHANGED <<campaigns, employees, results>>]_vars

\* The storage error came after the employees row and the results row of the
\* first record had been inserted.
C9_Witness ==
    /\ last.op = "add_employees"
    /\ last.outcome = "storage_error"
    /\ last.statements >= 2

\* C10: the campaign_id of every employees row and of every results row is
\* the id of a campaigns row.
C10_CampaignExists ==
    /\ \A e \in employees : e.campaign_id \in CampaignIds
    /\ \A r \in results : r.campaign_id \in CampaignIds

(***************************************************************************)
(* Properties of the employees and campaigns tables.                       *)
(***************************************************************************)
\* C11: no step changes or removes an employees row (its id, email, name,
\* department and campaign_id stay), after every step no two employees rows
\* have the same email, and an add_employees call without a storage error
\* whose file is valid and holds an email that is already stored succeeds.
C11_ExistingEmployeeKept ==
    [][/\ \A e \in employees : e \in employees'
       /\ \A a \in employees', b \in employees' : a.email = b.email => a = b
       /\ (last'.op = "add_employees" /\ last'.outcome # "ok")
          => \A f \in Files :
                (/\ ReadCsv(f).outcome = "ok"
                 /\ \E e \in employees : e.email \in EmailsOf(f.rows))
                => \A c \in CampaignInputs : ~AddEmployees(c, f, 0)]_vars

\* An email that is stored was enrolled again, under another campaign
\* identifier, and the call succeeded.
C11_Witness ==
    /\ last.op = "add_employees"
    /\ last.outcome = "ok"
    /\ \E e \in employees, x \in enrolled :
          /\ x.email = e.email
          /\ x.campaign_id # e.campaign_id
          /\ Cardinality({y \in enrolled : y.email = e.email}) = 2

(***************************************************************************)
(* create_campaign.                                                        *)
(***************************************************************************)
\* C12: create_campaign with a template name that is not a key of the
\* catalog fails with the unknown-template error and leaves campaigns,
\* employees and results as they were.
C12_UnknownTemplateRejected ==
    [][last'.op = "create_campaign"
       => \A template \in TemplateInputs \ DOMAIN templates :
             \A name \in CampaignNames, now \in Times, failed \in BOOLEAN :
                CreateCampaign(name, template, now, failed)
                => /\ last'.outcome = "unknown_template"
                   /\ UNCHANGED <<campaigns, employees, results>>]_vars

\* The unknown template was rejected while the store held rows.
C12_Witness ==
    /\ last.op = "create_campaign"
    /\ last.outcome = "unknown_template"
    /\ campaigns # {}
    /\ results # {}

RoundedPercent(rate, part, total) ==
    /\ 2 * (rate * total - part * 10000) <= total
    /\ 2 * (part * 10000 - rate * total) <= total

\* C14: for an id with no results row, the id of no stored campaign
\* included, get_stats yields zero for the four counts and for both rates
\* (no division is made) and no department entry; where there are rows, both
\* rates are the percentages of the total rounded to two decimals and lie
\* between 0 and 100.
C14_StatsOfEmptyAndRates ==
    \A c \in CampaignInputs :
        LET s == Stats(c)
            rows == {r \in results : r.campaign_id = c}
        IN /\ rows = {}
              => s = [total_employees |-> 0, emails_sent |-> 0,
                      links_clicked |-> 0, phishing_reported |-> 0,
                      click_rate |-> 0, report_rate |-> 0,
                      department_stats |-> {}]
           /\ rows # {}
              => /\ s.total_employees > 0
                 /\ RoundedPercent(s.click_rate, s.links_clicked, s.total_employees)
                 /\ RoundedPercent(s.report_rate, s.phishing_reported, s.total_employees)
                 /\ s.click_rate \in 0..10000
                 /\ s.report_rate \in 0..10000

\* The statistics were read where one campaign has two clicks and one
\* report among three rows, and the unknown id has no row.
C14_Witness ==
    /\ last.op = "get_stats"
    /\ last.outcome = "ok"
    /\ Stats(BogusId).total_employees = 0
    /\ \E c \in CampaignIds :
          /\ Stats(c).total_employees = 3
          /\ Stats(c).click_rate = 6667
          /\ Stats(c).report_rate = 3333

\* C15: the department entries of get_stats(c) are, one each, the distinct
\* departments of the employees rows whose campaign_id is c; an entry's total
\* is the number of those employees in the department, and its clicked and
\* reported are the numbers of the results rows of those employees with
\* link_clicked, respectively phishing_reported, set.
C15_DepartmentBreakdown ==
    \A c \in CampaignInputs :
        LET entries == Stats(c).department_stats
            emps == {e \in employees : e.campaign_id = c}
        IN /\ {d.department : d \in entries} = {e.department : e \in emps}
           /\ Cardinality(entries) = Cardinality({e.department : e \in emps})
           /\ \A d \in entries :
                 LET members == {e \in emps : e.department = d.department}
                     theirs == {r \in results :
                                   \E e \in members : r.employee_id = e.id}
                 IN /\ d.total = Cardinality(members)
                    /\ d.clicked = Cardinality({r \in theirs : r.link_clicked = 1})
                    /\ d.reported =
                          Cardinality({r \in theirs : r.phishing_reported = 1})

\* The statistics were read where a campaign has employees of two
\* departments, a click in one and a report in the other.
C15_Witness ==
    /\ last.op = "get_stats"
    /\ last.outcome = "ok"
    /\ \E c \in CampaignIds :
          /\ Cardinality(Stats(c).department_stats) = 2
          /\ \E a \in Stats(c).department_stats, b \in Stats(c).department_stats :
                /\ a.department # b.department
                /\ a.clicked = 1 /\ a.reported = 0
                /\ b.clicked = 0 /\ b.reported = 1

(***************************************************************************)
(* generate_emails and export_report.                                      *)
(***************************************************************************)
\* C16: generate_emails with an id that no campaigns row has fails with
\* 'campaign not found', writes no file, and leaves every results row, the
\* email_sent flags with it, as it was.
C16_UnknownCampaignNotRendered ==
    [][last'.op = "generate_emails"
       => \A c \in CampaignInputs \ CampaignIds :
             (\E written \in SUBSET SelectRecipients(c) :
                 \E marked \in SUBSET written : GenerateEmails(c, written, marked))
             => /\ last'.outcome = "campaign_not_found"
                /\ last'.written = 0
                /\ results' = results]_vars

\* The call was refused for an id under which an employee is enrolled whose
\* email is not marked as sent.
C16_Witness ==
    /\ last.op = "generate_emails"
    /\ last.outcome = "campaign_not_found"
    /\ \E e \in employees, r \in results :
          /\ e.campaign_id \notin CampaignIds
          /\ r.employee_id = e.id
          /\ r.email_sent = 0

\* C17: export_report with a format other than csv and json opens no file
\* and, unless get_stats failed first, fails with the unsupported-format
\* error; no export_report call changes the store; the file a call writes
\* has the name of every call with the same format and an id with the same
\* first 8 characters.
C17_ExportFormatAndName ==
    [][last'.op = "export_report"
       => \A c \in CampaignInputs \cup {BogusId2}, format \in Formats :
             \A failed \in BOOLEAN :
                ExportReport(c, format, failed)
                => /\ UNCHANGED <<campaigns, employees, results>>
                   /\ format \notin {"csv", "json"}
                      => /\ last'.files = {}
                         /\ ~failed => last'.outcome = "unsupported_format"
                   /\ (format \in {"csv", "json"} /\ ~failed)
                      => /\ last'.outcome = "ok"
                         /\ \A c2 \in CampaignInputs \cup {BogusId2} :
                               Prefix8(c2) = Prefix8(c)
                               => {f.name : f \in last'.files}
                                     = {Filename(c2, format)}]_vars

\* An export in an unsupported format was refused while the store held rows.
C17_Witness ==
    /\ last.op = "export_report"
    /\ last.outcome = "unsupported_format"
    /\ last.files = {}
    /\ campaigns # {}
    /\ results # {}

(***************************************************************************)
(* The statistics and the rows over every sequence of operations.          *)
(***************************************************************************)
\* C18: for every stored campaign the department entries of get_stats add up
\* to its totals: their total to total_employees, their clicked to
\* links_clicked and their reported to phishing_reported.
C18_BreakdownSumsToTotals ==
    \A c \in CampaignIds :
        LET s == Stats(c)
        IN /\ SumRows(s.department_stats, "total") = s.total_employees
           /\ SumRows(s.department_stats, "clicked") = s.links_clicked
           /\ SumRows(s.department_stats, "reported") = s.phishing_reported

\* C19: no step removes a campaigns, employees or results row; a results row
\* keeps its token, employee_id and campaign_id; and a flag email_sent,
\* link_clicked or phishing_reported that is set stays set.
C19_NothingDeletedFlagsStay ==
    [][/\ \/ campaigns' = campaigns
          \/ \A c \in campaigns : \E d \in campaigns' : d.id = c.id
       /\ \/ employees' = employees
          \/ \A e \in employees : \E f \in employees' : f.id = e.id
       /\ \/ results' = results
          \/ \A r \in results :
             \E q \in results' :
                /\ q.id = r.id
                /\ q.token = r.token
                /\ q.employee_id = r.employee_id
                /\ q.campaign_id = r.campaign_id
                /\ r.email_sent = 1 => q.email_sent = 1
                /\ r.link_clicked = 1 => q.link_clicked = 1
                /\ r.phishing_reported = 1 => q.phishing_reported = 1]_vars

\* A row was marked as sent, clicked and reported, and an enrolment followed.
C19_Witness ==
    /\ last.op = "add_employees"
    /\ last.outcome = "ok"
    /\ Cardinality(results) = 2
    /\ \E r \in results :
          r.email_sent = 1 /\ r.link_clicked = 1 /\ r.phishing_reported = 1

\* C20: in every state and for every results row, clicked_at is set exactly
\* when link_clicked is, and reported_at exactly when phishing_reported is.
C20_TimestampsMatchFlags ==
    \A r \in results :
        /\ r.link_clicked \in {0, 1}
        /\ r.phishing_reported \in {0, 1}
        /\ r.clicked_at # NULL <=> r.link_clicked = 1
        /\ r.reported_at # NULL <=> r.phishing_reported = 1

\* One row is clicked and reported, another is neither.
C20_Witness ==
    \E r \in results, q \in results :
        /\ r.link_clicked = 1 /\ r.clicked_at # NULL
        /\ r.phishing_reported = 1 /\ r.reported_at # NULL
        /\ q.link_clicked = 0 /\ q.clicked_at = NULL
        /\ q.phishing_reported = 0 /\ q.reported_at = NULL

====
